---- MODULE Spec2Model ----
(***************************************************************************)
(* MSV filter: the scalar ungapped local-alignment recurrence compute_msv  *)
(* (tests/stub_msv.cpp) over the HMMProfile emission table                 *)
(* (include/profile.hpp), the DPMatrix scratch grid (include/dp_matrix.hpp)*)
(* and a digital sequence with sentinels (tests/test_vectors.hpp).         *)
(*                                                                         *)
(* Scores are floats in the source.  They are modelled by integers (which  *)
(* floats of this magnitude represent exactly) plus the value NegInf for   *)
(* -eslINFINITY, with the IEEE rules -inf + x = -inf and -inf < x.         *)
(***************************************************************************)
EXTENDS Integers, Sequences, FiniteSets, TLC

(***************************************************************************)
(* Bounds of the model.                                                    *)
(***************************************************************************)
\* two-residue inputs: model length and sequence length range over -1..Max
MaxM == 2
MaxL == 2
\* one-score-per-position inputs: longer models and sequences
LongM == 3
LongL == 3
\* pairs of calls that differ in one profile cell
PairM == 2
PairL == 2
\* pattern profiles (one preferred residue per position): M and L in 1..PatN
PatN == 3
\* two interleaved calls
IlvM == 2
IlvL == 2
\* a profile under construction, then one call
BuildM == 2
BuildL == 2

(***************************************************************************)
(* Program constants.                                                      *)
(***************************************************************************)
K == 20
Kp == 29
digitalResidueSentinel == 255
digitalResidueIllegal == 254
p7P_NR == 2
p7P_MSC == 0
p7G_NSCELLS == 3
p7G_M == 0
p7G_NXCELLS == 5

\* -eslINFINITY: below every finite score the model can form
NegInf == -1000

\* float addition: -inf absorbs
AddF(a, b) == IF a = NegInf \/ b = NegInf THEN NegInf ELSE a + b

\* std::max(a, b): (a < b) ? b : a
MaxF(a, b) == IF a < b THEN b ELSE a

Max0(n) == IF n < 0 THEN 0 ELSE n

(***************************************************************************)
(* Alphabet: index of the gap symbol '-' in "ACDEFGHIKLMNPQRSTVWY-BJZOUX*~"*)
(***************************************************************************)
GapIdx == 20

(***************************************************************************)
(* AminoAcidAlphabet: ndegen[0..Kp-1] and the flattened Kp x K table degen.*)
(***************************************************************************)
\* degen[(row * K) + col] = val
set_degen(a, row, col, val) == [a EXCEPT !.degen[(row * K) + col] = val]

\* degen[(row * K) + col]
get_degen(a, row, col) == a.degen[(row * K) + col]

\* variant: the wildcard taken to be the last symbol
any_idxLast == Kp - 1

\* int any_idx = Kp - 3;
any_idx == Kp - 3

\* ndegen.resize(Kp, 0); degen.resize(Kp * K, 0);
AlphabetAllocation ==
    [ K      |-> K,
      Kp     |-> Kp,
      ndegen |-> [x \in 0..(Kp - 1) |-> 0],
      degen  |-> [j \in 0..(Kp * K - 1) |-> 0] ]

\* for (x = 0; x < K; x++) { ndegen[x] = 1; set_degen(x, x, 1); }
RECURSIVE BaseAlphabetLoop(_, _)
BaseAlphabetLoop(a, x) ==
    IF x < K
    THEN BaseAlphabetLoop(set_degen([a EXCEPT !.ndegen[x] = 1], x, x, 1), x + 1)
    ELSE a

\* for (y = 0; y < K; y++) set_degen(any_idx, y, 1);
RECURSIVE AnyLoop(_, _)
AnyLoop(a, y) ==
    IF y < K THEN AnyLoop(set_degen(a, any_idx, y, 1), y + 1) ELSE a

\* the constructor: allocation, base alphabet, then the "any" character
AminoAcidAlphabet ==
    LET base == BaseAlphabetLoop(AlphabetAllocation, 0)
    IN  AnyLoop([base EXCEPT !.ndegen[any_idx] = K], 0)

(***************************************************************************)
(* HMMProfile.  rsc[x][k * p7P_NR + emission_type], x in 0..Kp-1.          *)
(***************************************************************************)
\* variant: the emission table allocated with 0 in every cell, before the gap
\* row is forced to -infinity
HMMProfileZeroFill(model_length) ==
    [ model_length |-> 0,
      allocM       |-> model_length,
      rsc          |-> [x \in 0..(Kp - 1) |->
                          [j \in 0..((model_length + 1) * p7P_NR - 1) |->
                             IF x = GapIdx THEN NegInf ELSE 0]] ]

HMMProfile(model_length) ==
    [ model_length |-> 0,
      allocM       |-> model_length,
      rsc          |-> [x \in 0..(Kp - 1) |->
                          [j \in 0..((model_length + 1) * p7P_NR - 1) |-> NegInf]] ]

\* p7P_MSC(gm, k, x) -> rsc[x][(k) * p7P_NR + p7P_MSC]
match_score(prof, k_, residue_idx) == prof.rsc[residue_idx][(k_ * p7P_NR) + p7P_MSC]

\* The profile builders of the tests: construct with allocM, set model_length,
\* then write match_score(k, x) for k in 1..allocM and canonical x.  f[k][x] is
\* the score written for residue x at position k.
BuildProfile(allocM, model_length, f) ==
    LET p0 == HMMProfile(allocM)
    IN  [ p0 EXCEPT
            !.model_length = model_length,
            !.rsc = [x \in 0..(Kp - 1) |->
                       [j \in 0..((allocM + 1) * p7P_NR - 1) |->
                          IF x < K /\ j % p7P_NR = p7P_MSC /\ j \div p7P_NR >= 1
                          THEN f[j \div p7P_NR][x]
                          ELSE p0.rsc[x][j]]] ]

(***************************************************************************)
(* DPMatrix.  dp[i][k * p7G_NSCELLS + s], xmx[i * p7G_NXCELLS + s].        *)
(***************************************************************************)
\* variant: the constructor sets the match cells of row 0 and column 0 to 0
DPMatrixZeroBoundary(max_model_length, max_sequence_length) ==
    [ model_length    |-> max_model_length,
      sequence_length |-> max_sequence_length,
      allocR          |-> max_sequence_length + 1,
      validR          |-> max_sequence_length + 1,
      allocW          |-> max_model_length + 1,
      dp  |-> [i_ \in 0..max_sequence_length |->
                 [j \in 0..((max_model_length + 1) * p7G_NSCELLS - 1) |->
                    IF j % p7G_NSCELLS = p7G_M /\ (i_ = 0 \/ j \div p7G_NSCELLS = 0)
                    THEN 0 ELSE NegInf]],
      xmx |-> [j \in 0..((max_sequence_length + 1) * p7G_NXCELLS - 1) |-> NegInf] ]

\* variant: the rows allocated with one cell per model position
DPMatrixOneCell(max_model_length, max_sequence_length) ==
    [ model_length    |-> max_model_length,
      sequence_length |-> max_sequence_length,
      allocR          |-> max_sequence_length + 1,
      validR          |-> max_sequence_length + 1,
      allocW          |-> max_model_length + 1,
      dp  |-> [i_ \in 0..max_sequence_length |->
                 [j \in 0..max_model_length |-> NegInf]],
      xmx |-> [j \in 0..((max_sequence_length + 1) * p7G_NXCELLS - 1) |-> NegInf] ]

DPMatrix(max_model_length, max_sequence_length) ==
    [ model_length    |-> max_model_length,
      sequence_length |-> max_sequence_length,
      allocR          |-> max_sequence_length + 1,
      validR          |-> max_sequence_length + 1,
      allocW          |-> max_model_length + 1,
      dp  |-> [i_ \in 0..max_sequence_length |->
                 [j \in 0..((max_model_length + 1) * p7G_NSCELLS - 1) |-> NegInf]],
      xmx |-> [j \in 0..((max_sequence_length + 1) * p7G_NXCELLS - 1) |-> NegInf] ]

\* variant: the match accessor addresses the insert cell, p7G_I = 1
MatchIdxInsert(k_) == (k_ * p7G_NSCELLS) + 1

\* MMX(i,k) = dp[(i)][(k) * p7G_NSCELLS + p7G_M]
MatchIdx(k_) == (k_ * p7G_NSCELLS) + p7G_M

match(mat, i_, k_) == mat.dp[i_][MatchIdx(k_)]

\* dp_matrix.match(i, k) = v
SetMatch(mat, i_, k_, v) == [mat EXCEPT !.dp[i_][MatchIdx(k_)] = v]

(***************************************************************************)
(* create_digital_sequence: sentinels at 0 and L+1, residues at 1..L.      *)
(***************************************************************************)
create_digital_sequence(residues) ==
    LET n == Len(residues)
    IN  [j \in 0..(n + 1) |->
           IF j = 0 \/ j = n + 1 THEN digitalResidueSentinel ELSE residues[j]]

(***************************************************************************)
(* State.  Calls are invocations of compute_msv; Mats are DPMatrix objects.*)
(***************************************************************************)
Calls == {1, 2}
Mats == {1, 2}

VARIABLES
    digital_sequence,   \* per call: the buffer digital_sequence[0..L+1]
    sequence_length,    \* per call: the argument sequence_length
    profile,            \* per call: the HMMProfile passed by reference
    mx,                 \* per call: which DPMatrix is passed as dp_matrix
    expected_hit_count, \* per call: the argument expected_hit_count
    dp_matrix,          \* per matrix: the DPMatrix object
    pc,                 \* per call: position in compute_msv
    i,                  \* per call: loop variable i
    k,                  \* per call: loop variable k
    residue,            \* per call: local residue
    max_score,          \* per call: local max_score
    ret                 \* per call: returned value (NegInf before the return)

inputs == <<digital_sequence, sequence_length, profile, mx, expected_hit_count>>
vars == <<digital_sequence, sequence_length, profile, mx, expected_hit_count, dp_matrix,
          pc, i, k, residue, max_score, ret>>

(***************************************************************************)
(* compute_msv, one action per statement group.                            *)
(***************************************************************************)
\* variant: the edge-case test written with < instead of <=
EdgeCaseStrict(L, M) == L < 0 \/ M < 0

\* if (sequence_length <= 0 || profile.model_length <= 0)
EdgeCase(L, M) == L <= 0 \/ M <= 0

\* variant: the residue test off by one
InvalidResidueOffByOne(r) == r >= 19

\* variant: only the illegal marker and the sentinel are taken as invalid
InvalidResidueMarkersOnly(r) == r >= digitalResidueIllegal

\* if (residue >= 20)
InvalidResidue(r) == r >= 20

\* variant: the running maximum starts at -infinity
InitialMaxScoreNegInf == NegInf

\* float max_score = 0.0f;
InitialMaxScore == 0

\* variant: the predecessor read from the cell above, (i-1, k)
DiagPrevAbove(mat, i_, k_) == match(mat, i_ - 1, k_)

\* dp_matrix.match(i - 1, k - 1)
DiagPrev(mat, i_, k_) == match(mat, i_ - 1, k_ - 1)

\* variant: the recurrence without the extension option
DpValueStartOnly(prev, ms) == MaxF(0, ms)

\* variant: the recurrence without the zero floor
DpValueNoFloor(prev, ms) == MaxF(ms, AddF(prev, ms))

\* variant: the extension subtracts the match score
DpValueSignSlip(prev, ms) ==
    MaxF(0, MaxF(ms, IF prev = NegInf \/ ms = NegInf THEN NegInf ELSE prev - ms))

\* start_new / extend_prev / std::max / std::max(0.0f, .)
DpValue(prev, ms) ==
    LET start_new   == ms
        extend_prev == AddF(prev, ms)
        dp_value    == MaxF(start_new, extend_prev)
    IN  MaxF(0, dp_value)

\* variant: max_score is overwritten by every cell
TrackMaxLast(cur, dp_value) == dp_value

\* if (dp_value > max_score) max_score = dp_value;
TrackMax(cur, dp_value) == IF dp_value > cur THEN dp_value ELSE cur

ModelLen(c) == profile[c].model_length

\* edge-case test and early return, or fall through to the row-0 loop
Entry(c) ==
    /\ pc[c] = "entry"
    /\ IF EdgeCase(sequence_length[c], ModelLen(c))
       THEN /\ pc' = [pc EXCEPT ![c] = "done"]
            /\ ret' = [ret EXCEPT ![c] = 0]
            /\ UNCHANGED k
       ELSE /\ pc' = [pc EXCEPT ![c] = "row0"]
            /\ k' = [k EXCEPT ![c] = 0]
            /\ UNCHANGED ret
    /\ UNCHANGED <<inputs, dp_matrix, i, residue, max_score>>

\* variant: max_score is one static variable, which every call resets
Row0StaticMax(c) ==
    /\ pc[c] = "row0"
    /\ IF k[c] <= ModelLen(c)
       THEN /\ dp_matrix' = [dp_matrix EXCEPT ![mx[c]] = SetMatch(@, 0, k[c], 0)]
            /\ k' = [k EXCEPT ![c] = @ + 1]
            /\ UNCHANGED <<pc, i, max_score>>
       ELSE /\ max_score' = [c2 \in Calls |-> InitialMaxScore]
            /\ i' = [i EXCEPT ![c] = 1]
            /\ pc' = [pc EXCEPT ![c] = "row"]
            /\ UNCHANGED <<dp_matrix, k>>
    /\ UNCHANGED <<inputs, residue, ret>>

\* variant: the running maximum starts at expected_hit_count
Row0HitCount(c) ==
    /\ pc[c] = "row0"
    /\ IF k[c] <= ModelLen(c)
       THEN /\ dp_matrix' = [dp_matrix EXCEPT ![mx[c]] = SetMatch(@, 0, k[c], 0)]
            /\ k' = [k EXCEPT ![c] = @ + 1]
            /\ UNCHANGED <<pc, i, max_score>>
       ELSE /\ max_score' = [max_score EXCEPT ![c] = expected_hit_count[c]]
            /\ i' = [i EXCEPT ![c] = 1]
            /\ pc' = [pc EXCEPT ![c] = "row"]
            /\ UNCHANGED <<dp_matrix, k>>
    /\ UNCHANGED <<inputs, residue, ret>>

\* for (k = 0; k <= M; k++) dp_matrix.match(0, k) = 0; then max_score = 0, i = 1
Row0(c) ==
    /\ pc[c] = "row0"
    /\ IF k[c] <= ModelLen(c)
       THEN /\ dp_matrix' = [dp_matrix EXCEPT ![mx[c]] = SetMatch(@, 0, k[c], 0)]
            /\ k' = [k EXCEPT ![c] = @ + 1]
            /\ UNCHANGED <<pc, i, max_score>>
       ELSE /\ max_score' = [max_score EXCEPT ![c] = InitialMaxScore]
            /\ i' = [i EXCEPT ![c] = 1]
            /\ pc' = [pc EXCEPT ![c] = "row"]
            /\ UNCHANGED <<dp_matrix, k>>
    /\ UNCHANGED <<inputs, residue, ret>>

\* variant: the row step overwrites an invalid residue with the illegal marker
RowNormalises(c) ==
    /\ pc[c] = "row"
    /\ IF i[c] <= sequence_length[c]
       THEN LET r == digital_sequence[c][i[c]]
            IN  /\ residue' = [residue EXCEPT ![c] = r]
                /\ k' = [k EXCEPT ![c] = 1]
                /\ pc' = [pc EXCEPT ![c] = IF InvalidResidue(r) THEN "skip" ELSE "cell"]
                /\ digital_sequence' =
                     [digital_sequence EXCEPT ![c][i[c]] =
                        IF InvalidResidue(r) THEN digitalResidueIllegal ELSE r]
                /\ UNCHANGED ret
       ELSE /\ pc' = [pc EXCEPT ![c] = "done"]
            /\ ret' = [ret EXCEPT ![c] = max_score[c]]
            /\ UNCHANGED <<residue, k, digital_sequence>>
    /\ UNCHANGED <<sequence_length, profile, mx, expected_hit_count, dp_matrix,
                   i, max_score>>

\* for (i = 1; i <= L; ...) { residue = digital_sequence[i]; branch } / return
Row(c) ==
    /\ pc[c] = "row"
    /\ IF i[c] <= sequence_length[c]
       THEN LET r == digital_sequence[c][i[c]]
            IN  /\ residue' = [residue EXCEPT ![c] = r]
                /\ k' = [k EXCEPT ![c] = 1]
                /\ pc' = [pc EXCEPT ![c] = IF InvalidResidue(r) THEN "skip" ELSE "cell"]
                /\ UNCHANGED ret
       ELSE /\ pc' = [pc EXCEPT ![c] = "done"]
            /\ ret' = [ret EXCEPT ![c] = max_score[c]]
            /\ UNCHANGED <<residue, k>>
    /\ UNCHANGED <<inputs, dp_matrix, i, max_score>>

\* variant: an invalid residue scores 0 and the run goes on through its row
SkipCarriesRun(c) ==
    /\ pc[c] = "skip"
    /\ IF k[c] <= ModelLen(c)
       THEN /\ dp_matrix' = [dp_matrix EXCEPT ![mx[c]] =
                               SetMatch(@, i[c], k[c], MaxF(0, DiagPrev(@, i[c], k[c])))]
            /\ k' = [k EXCEPT ![c] = @ + 1]
            /\ UNCHANGED <<pc, i>>
       ELSE /\ i' = [i EXCEPT ![c] = @ + 1]
            /\ pc' = [pc EXCEPT ![c] = "row"]
            /\ UNCHANGED <<dp_matrix, k>>
    /\ UNCHANGED <<inputs, residue, max_score, ret>>

\* variant: the row of an invalid residue is skipped without being written
SkipNoWrite(c) ==
    /\ pc[c] = "skip"
    /\ IF k[c] <= ModelLen(c)
       THEN /\ k' = [k EXCEPT ![c] = @ + 1]
            /\ UNCHANGED <<dp_matrix, pc, i>>
       ELSE /\ i' = [i EXCEPT ![c] = @ + 1]
            /\ pc' = [pc EXCEPT ![c] = "row"]
            /\ UNCHANGED <<dp_matrix, k>>
    /\ UNCHANGED <<inputs, residue, max_score, ret>>

\* for (k = 1; k <= M; k++) dp_matrix.match(i, k) = 0; continue;
Skip(c) ==
    /\ pc[c] = "skip"
    /\ IF k[c] <= ModelLen(c)
       THEN /\ dp_matrix' = [dp_matrix EXCEPT ![mx[c]] = SetMatch(@, i[c], k[c], 0)]
            /\ k' = [k EXCEPT ![c] = @ + 1]
            /\ UNCHANGED <<pc, i>>
       ELSE /\ i' = [i EXCEPT ![c] = @ + 1]
            /\ pc' = [pc EXCEPT ![c] = "row"]
            /\ UNCHANGED <<dp_matrix, k>>
    /\ UNCHANGED <<inputs, residue, max_score, ret>>

\* variant: the cells are read from and written to one matrix kept by the
\* function for all its calls
CellStaticMatrix(c) ==
    /\ pc[c] = "cell"
    /\ IF k[c] <= ModelLen(c)
       THEN LET ms       == match_score(profile[c], k[c], residue[c])
                dp_value == DpValue(DiagPrev(dp_matrix[1], i[c], k[c]), ms)
            IN  /\ dp_matrix' = [dp_matrix EXCEPT ![1] = SetMatch(@, i[c], k[c], dp_value)]
                /\ max_score' = [max_score EXCEPT ![c] = TrackMax(@, dp_value)]
                /\ k' = [k EXCEPT ![c] = @ + 1]
                /\ UNCHANGED <<pc, i>>
       ELSE /\ i' = [i EXCEPT ![c] = @ + 1]
            /\ pc' = [pc EXCEPT ![c] = "row"]
            /\ UNCHANGED <<dp_matrix, k, max_score>>
    /\ UNCHANGED <<inputs, residue, ret>>

\* for (k = 1; k <= M; k++) { the recurrence for cell (i, k) }
Cell(c) ==
    /\ pc[c] = "cell"
    /\ IF k[c] <= ModelLen(c)
       THEN LET ms       == match_score(profile[c], k[c], residue[c])
                dp_value == DpValue(DiagPrev(dp_matrix[mx[c]], i[c], k[c]), ms)
            IN  /\ dp_matrix' = [dp_matrix EXCEPT ![mx[c]] = SetMatch(@, i[c], k[c], dp_value)]
                /\ max_score' = [max_score EXCEPT ![c] = TrackMax(@, dp_value)]
                /\ k' = [k EXCEPT ![c] = @ + 1]
                /\ UNCHANGED <<pc, i>>
       ELSE /\ i' = [i EXCEPT ![c] = @ + 1]
            /\ pc' = [pc EXCEPT ![c] = "row"]
            /\ UNCHANGED <<dp_matrix, k, max_score>>
    /\ UNCHANGED <<inputs, residue, ret>>

Next == \E c \in Calls : Entry(c) \/ Row0(c) \/ Row(c) \/ Skip(c) \/ Cell(c)

\* two calls made one after the other, as a test makes them
Turn(c) == c = 1 \/ pc[1] = "done"

NextSeq ==
    \E c \in Calls :
        \/ Turn(c) /\ Entry(c)
        \/ Turn(c) /\ Row0(c)
        \/ Turn(c) /\ Row(c)
        \/ Turn(c) /\ Skip(c)
        \/ Turn(c) /\ Cell(c)

(***************************************************************************)
(* Inputs.                                                                 *)
(***************************************************************************)
\* residue codes and scores of the two-residue inputs
WideResidues == {0, K - 1, GapIdx, digitalResidueSentinel}
WideScores == {NegInf, 1}
\* residue codes and scores of the one-score-per-position inputs
LongResidues == {0, digitalResidueIllegal}
LongScores == {-1, 0, 2}

\* residue codes and scores of the pairs of calls
PairResidues == {0, digitalResidueIllegal}
PairScores == {NegInf, -1, 1, 2}

\* residue codes and scores of the profiles under construction
BuildResidues == {0, GapIdx}
BuildScores == {-1, 0, 2}

\* a row of scores over the canonical residues: a for 0..K-2, b for K-1
RowOf(a, b) == [x \in 0..(K - 1) |-> IF x = K - 1 THEN b ELSE a]
WideRows == {RowOf(a, b) : a \in WideScores, b \in WideScores}
LongRows == {RowOf(a, a) : a \in LongScores}
PairRows == {RowOf(a, a) : a \in PairScores}
BuildRows == {RowOf(a, b) : a \in {-1, 2}, b \in {-1, 2}}

\* the tests allocate one node for an empty model (EmptyModelTestCase)
AllocFor(M) == IF M <= 0 THEN 1 ELSE M

\* what one call is given: the length argument, the buffer, the profile built
\* from f, and a matrix freshly constructed with the dimensions of the call
CallInput(M, L, f, s) ==
    [ L    |-> L,
      seq  |-> create_digital_sequence(s),
      prof |-> BuildProfile(AllocFor(M), M, f),
      mat  |-> DPMatrix(Max0(M), Max0(L)) ]

\* a call that is never made
NoCall == CallInput(0, 0, [p \in 1..1 |-> RowOf(NegInf, NegInf)], << >>)

\* call 1 runs on in1, call 2 is in state st2 with in2; call c is passed the
\* matrix mats[c] and the expected hit count hits[c]
SetupOn(in1, in2, st2, mats, hits) ==
    /\ sequence_length = << in1.L, in2.L >>
    /\ digital_sequence = << in1.seq, in2.seq >>
    /\ profile = << in1.prof, in2.prof >>
    /\ mx = mats
    /\ expected_hit_count = hits
    /\ dp_matrix = << in1.mat, in2.mat >>
    /\ pc = << "entry", st2 >>
    /\ i = << 0, 0 >>
    /\ k = << 0, 0 >>
    /\ residue = << 0, 0 >>
    /\ max_score = << 0, 0 >>
    /\ ret = << NegInf, NegInf >>

\* each call on its own matrix, with the expected hit count the tests pass
Setup(in1, in2, st2) == SetupOn(in1, in2, st2, << 1, 2 >>, << 1, 1 >>)

\* one compute_msv call on any input
InitWide ==
    \E M \in (-1)..MaxM, L \in (-1)..MaxL :
        \E f \in [1..AllocFor(M) -> WideRows], s \in [1..Max0(L) -> WideResidues] :
            Setup(CallInput(M, L, f, s), NoCall, "idle")

InitLong ==
    \E M \in 1..LongM, L \in 1..LongL :
        \E f \in [1..M -> LongRows], s \in [1..L -> LongResidues] :
            Setup(CallInput(M, L, f, s), NoCall, "idle")

Init == InitWide \/ InitLong

Spec == Init /\ [][Next]_vars

\* two calls on the same sequence, each with its own fresh matrix; the second
\* profile is the first with the score of residue 0 at one position raised
InitMono ==
    \E M \in 1..PairM, L \in 1..PairL :
        \E f \in [1..M -> PairRows], s \in [1..L -> PairResidues],
           kk \in 1..M, v \in PairScores :
            /\ v > f[kk][0]
            /\ Setup(CallInput(M, L, f, s),
                     CallInput(M, L, [f EXCEPT ![kk][0] = v], s), "entry")

SpecMono == InitMono /\ [][NextSeq]_vars

\* two calls on the same sequence and the same profile, each with its own
\* freshly constructed matrix of the same dimensions
InitSame ==
    \E M \in 0..PairM, L \in 0..PairL :
        \E f \in [1..AllocFor(M) -> PairRows], s \in [1..L -> PairResidues] :
            Setup(CallInput(M, L, f, s), CallInput(M, L, f, s), "entry")

SpecSame == InitSame /\ [][NextSeq]_vars

\* the row create_alternating_pattern_profile writes at position kk: the
\* preferred residue (kk - 1) % K scores m, every other residue scores o
RowPref(kk, m, o) == [x \in 0..(K - 1) |-> IF x = (kk - 1) % K THEN m ELSE o]

\* <<score of the preferred residue, score of the others>> of a position
PatternScores == { <<2, -1>>, <<2, 0>>, <<1, -1>>, <<-1, -1>> }

\* the sequences of the pattern tests: one residue repeated, all residues
\* different, and the latter with an illegal first residue
PatternSequences(L) ==
    { [j \in 1..L |-> 0],
      [j \in 1..L |-> (j - 1) % K],
      [j \in 1..L |-> IF j = 1 THEN digitalResidueIllegal ELSE (j - 1) % K] }

\* one call on a pattern profile
InitPattern ==
    \E M \in 1..PatN, L \in 1..PatN :
        \E g \in [1..M -> PatternScores], s \in PatternSequences(L) :
            Setup(CallInput(M, L, [kk \in 1..M |-> RowPref(kk, g[kk][1], g[kk][2])], s),
                  NoCall, "idle")

SpecPattern == InitPattern /\ [][Next]_vars

\* residue codes and scores of the interleaved calls
IlvResidues == {0, digitalResidueIllegal}
IlvScores == {-1, 2}
IlvRows == {RowOf(a, a) : a \in IlvScores}

\* two calls that share one profile, each on its own sequence and its own
\* freshly constructed matrix; their steps interleave in any order
InitInterleave ==
    \E M \in 1..IlvM, L1 \in 1..IlvL, L2 \in 1..IlvL :
        \E f \in [1..M -> IlvRows],
           s1 \in [1..L1 -> IlvResidues], s2 \in [1..L2 -> IlvResidues] :
            Setup(CallInput(M, L1, f, s1), CallInput(M, L2, f, s2), "entry")

SpecInterleave == InitInterleave /\ [][Next]_vars

\* create_constant_score_profile: after the constructor and the assignment of
\* model_length, every canonical residue gets match_score at every position
create_constant_score_profile(c) ==
    /\ pc[c] = "build"
    /\ \E v \in BuildScores :
          profile' = [profile EXCEPT ![c] =
                        BuildProfile(@.allocM, @.allocM, [kk \in 1..@.allocM |-> RowOf(v, v)])]
    /\ pc' = [pc EXCEPT ![c] = "entry"]
    /\ UNCHANGED <<digital_sequence, sequence_length, mx, expected_hit_count, dp_matrix,
                   i, k, residue, max_score, ret>>

\* create_alternating_pattern_profile: position k prefers residue (k - 1) % K
create_alternating_pattern_profile(c) ==
    /\ pc[c] = "build"
    /\ \E m \in BuildScores, o \in BuildScores :
          profile' = [profile EXCEPT ![c] =
                        BuildProfile(@.allocM, @.allocM, [kk \in 1..@.allocM |-> RowPref(kk, m, o)])]
    /\ pc' = [pc EXCEPT ![c] = "entry"]
    /\ UNCHANGED <<digital_sequence, sequence_length, mx, expected_hit_count, dp_matrix,
                   i, k, residue, max_score, ret>>

\* create_specific_pattern_profile: the scores are given per position
create_specific_pattern_profile(c) ==
    /\ pc[c] = "build"
    /\ \E f \in [1..profile[c].allocM -> BuildRows] :
          profile' = [profile EXCEPT ![c] = BuildProfile(@.allocM, @.allocM, f)]
    /\ pc' = [pc EXCEPT ![c] = "entry"]
    /\ UNCHANGED <<digital_sequence, sequence_length, mx, expected_hit_count, dp_matrix,
                   i, k, residue, max_score, ret>>

NextBuild ==
    \E c \in Calls :
        \/ create_constant_score_profile(c)
        \/ create_alternating_pattern_profile(c)
        \/ create_specific_pattern_profile(c)
        \/ Entry(c) \/ Row0(c) \/ Row(c) \/ Skip(c) \/ Cell(c)

\* the profile of call 1 has just been constructed, HMMProfile(M, &abc), and a
\* builder is about to fill it; the call is made on the built profile
InitBuild ==
    \E M \in 0..BuildM, L \in 0..BuildL :
        \E s \in [1..L -> BuildResidues] :
            /\ sequence_length = << L, NoCall.L >>
            /\ digital_sequence = << create_digital_sequence(s), NoCall.seq >>
            /\ profile = << HMMProfile(M), NoCall.prof >>
            /\ mx = << 1, 2 >>
            /\ expected_hit_count = << 1, 1 >>
            /\ dp_matrix = << DPMatrix(M, L), NoCall.mat >>
            /\ pc = << "build", "idle" >>
            /\ i = << 0, 0 >>
            /\ k = << 0, 0 >>
            /\ residue = << 0, 0 >>
            /\ max_score = << 0, 0 >>
            /\ ret = << NegInf, NegInf >>

SpecBuild == InitBuild /\ [][NextBuild]_vars

\* a second call on the matrix the first call has filled; the two calls have
\* the same dimensions, and any sequences and profiles
InitReuse ==
    \E M \in 1..PairM, L \in 1..PairL :
        \E f1 \in [1..M -> IlvRows], f2 \in [1..M -> IlvRows],
           s1 \in [1..L -> IlvResidues], s2 \in [1..L -> IlvResidues] :
            SetupOn(CallInput(M, L, f1, s1), CallInput(M, L, f2, s2), "entry",
                    << 1, 1 >>, << 1, 1 >>)

SpecReuse == InitReuse /\ [][NextSeq]_vars

\* call 2 is run, whole, between two rows of call 1: it starts when call 1 is
\* about to read the residue of a row i >= 2, and call 1 goes on when call 2
\* has returned
Preempt(c) ==
    IF c = 1
    THEN \/ pc[2] = "done"
         \/ pc[2] = "entry" /\ ~(pc[1] = "row" /\ i[1] = sequence_length[1])
    ELSE \/ pc[2] # "entry"
         \/ pc[1] = "row" /\ i[1] >= 2 /\ i[1] <= sequence_length[1]

NextPreempt ==
    \E c \in Calls :
        \/ Preempt(c) /\ Entry(c)
        \/ Preempt(c) /\ Row0(c)
        \/ Preempt(c) /\ Row(c)
        \/ Preempt(c) /\ Skip(c)
        \/ Preempt(c) /\ Cell(c)

\* two calls with different sequences of one length on one profile, both
\* passed the same matrix
InitShared ==
    \E M \in 2..IlvM, L \in 2..IlvL :
        \E f \in [1..M -> IlvRows],
           s1 \in [1..L -> IlvResidues], s2 \in [1..L -> IlvResidues] :
            /\ s1 # s2
            /\ SetupOn(CallInput(M, L, f, s1), CallInput(M, L, f, s2), "entry",
                       << 1, 1 >>, << 1, 1 >>)

SpecShared == InitShared /\ [][NextPreempt]_vars

\* values of expected_hit_count: the tests pass 1.0, main.cpp shows 2.0
HitCounts == {1, 2}

\* two calls that differ only in expected_hit_count, each on its own matrix
InitHit ==
    \E M \in 0..PairM, L \in 0..PairL :
        \E f \in [1..AllocFor(M) -> PairRows], s \in [1..L -> PairResidues],
           h1 \in HitCounts, h2 \in HitCounts :
            /\ h1 # h2
            /\ SetupOn(CallInput(M, L, f, s), CallInput(M, L, f, s), "entry",
                       << 1, 2 >>, << h1, h2 >>)

SpecHit == InitHit /\ [][NextSeq]_vars

\* one call on a pattern profile that is not stopped before it returns
SpecPatternFair == InitPattern /\ [][Next]_vars /\ WF_vars(Next)

(***************************************************************************)
(* Vocabulary of the properties.                                           *)
(***************************************************************************)
Done(c) == pc[c] = "done"
SeqLen(c) == sequence_length[c]
Mat(c) == dp_matrix[mx[c]]
Res(c, j) == digital_sequence[c][j]
Mu(c, kk, x) == match_score(profile[c], kk, x)
Canonical(r) == r < K
Min(a, b) == IF a < b THEN a ELSE b
SetMax(S) == CHOOSE x \in S : \A y \in S : y <= x

\* both lengths positive: the call goes past the edge-case return
Proper(c) == SeqLen(c) >= 1 /\ ModelLen(c) >= 1

AllCanonical(c) == \A j \in 1..SeqLen(c) : Canonical(Res(c, j))

\* every canonical match score of positions 1..M equals v
ConstantProfile(c, v) ==
    \A kk \in 1..ModelLen(c), x \in 0..(K - 1) : Mu(c, kk, x) = v

\* every canonical match score of positions 1..M is negative (-infinity included)
AllNegative(c) ==
    \A kk \in 1..ModelLen(c), x \in 0..(K - 1) : Mu(c, kk, x) < 0

\* the diagonal runs: start (i0, k0), length n, inside the L x M grid
Runs(c) ==
    { r \in (1..SeqLen(c)) \X (1..ModelLen(c)) \X (1..Min(SeqLen(c), ModelLen(c))) :
        r[1] + r[3] - 1 <= SeqLen(c) /\ r[2] + r[3] - 1 <= ModelLen(c) }

\* no position of the run holds a non-canonical residue
RunCanonical(c, r) == \A j \in 0..(r[3] - 1) : Canonical(Res(c, r[1] + j))

\* sum of mu(k0 + j, S[i0 + j]) over the first n positions of a canonical run
RECURSIVE RunSum(_, _, _, _)
RunSum(c, i0, k0, n) ==
    IF n = 0 THEN 0
    ELSE AddF(RunSum(c, i0, k0, n - 1), Mu(c, k0 + n - 1, Res(c, i0 + n - 1)))

\* sum over a run in which a non-canonical position adds 0
RECURSIVE RunSumZero(_, _, _, _)
RunSumZero(c, i0, k0, n) ==
    IF n = 0 THEN 0
    ELSE AddF(RunSumZero(c, i0, k0, n - 1),
              IF Canonical(Res(c, i0 + n - 1))
              THEN Mu(c, k0 + n - 1, Res(c, i0 + n - 1)) ELSE 0)

\* best score over the runs without a non-canonical position, or 0
BestCanonicalRun(c) ==
    SetMax({0} \cup { RunSum(c, r[1], r[2], r[3]) : r \in { q \in Runs(c) : RunCanonical(c, q) } })

\* best score over all runs, a non-canonical position adding 0, or 0
BestRunZero(c) ==
    SetMax({0} \cup { RunSumZero(c, r[1], r[2], r[3]) : r \in Runs(c) })

C2_ConstantProfile ==
    (Done(1) /\ ModelLen(1) >= 0 /\ SeqLen(1) >= 0 /\ AllCanonical(1)) =>
        \A v \in {s \in WideScores \cup LongScores : s >= 0} :
            ConstantProfile(1, v) => ret[1] = Min(ModelLen(1), SeqLen(1)) * v

\* constant 2, M = 3 and L = 2: the sequence length limits, the call returns 4
C2_Witness ==
    /\ Done(1) /\ AllCanonical(1)
    /\ ModelLen(1) = 3 /\ SeqLen(1) = 2
    /\ ConstantProfile(1, 2)
    /\ ret[1] = 4

\* C3: when the model length or the sequence length is <= 0, compute_msv
\* returns 0 at once, whatever the profile and the sequence hold: past its
\* entry the call has returned, with the value 0.
C3_NonPositiveLength ==
    (pc[1] # "entry" /\ (ModelLen(1) <= 0 \/ SeqLen(1) <= 0)) =>
        (Done(1) /\ ret[1] = 0)

\* a negative sequence length with a profile that holds scores and a model of
\* positive length: returned 0
C3_Witness ==
    /\ Done(1) /\ ret[1] = 0
    /\ SeqLen(1) < 0 /\ ModelLen(1) >= 1
    /\ \E x \in 0..(K - 1) : Mu(1, 1, x) > 0

\* C4 (as claimed): for a profile whose canonical match scores all equal one
\* negative constant c, compute_msv returns c itself rather than 0.
C4_ReturnsNegativeConstant ==
    (Done(1) /\ Proper(1) /\ AllCanonical(1)) =>
        \A v \in {s \in WideScores \cup LongScores : s < 0 /\ s # NegInf} :
            ConstantProfile(1, v) => ret[1] = v

C6_RunsPassNonCanonical ==
    (Done(1) /\ Proper(1)) => ret[1] = BestRunZero(1)

\* C6 (amended): a non-canonical position ends every run.  The result is the
\* best sum of mu(k, S[i]) over the contiguous diagonal runs that contain no
\* non-canonical position, or 0.
C6_RunsEndAtNonCanonical ==
    (Done(1) /\ Proper(1)) => ret[1] = BestCanonicalRun(1)

\* canonical, non-canonical, canonical on a constant profile of 2: the run
\* through the middle position would score 4, the call returns 2
C6_Witness ==
    /\ Done(1)
    /\ SeqLen(1) = 3 /\ ModelLen(1) = 3
    /\ Canonical(Res(1, 1)) /\ ~Canonical(Res(1, 2)) /\ Canonical(Res(1, 3))
    /\ ConstantProfile(1, 2)
    /\ ret[1] = 2

SameSequence(a, b) ==
    /\ digital_sequence[a] = digital_sequence[b]
    /\ SeqLen(a) = SeqLen(b)
    /\ ModelLen(a) = ModelLen(b)

\* the profiles of a and b are equal except for one match-score cell, which
\* is larger in b
OneCellLarger(a, b) ==
    \E kk \in 1..ModelLen(a), x \in 0..(K - 1) :
        /\ Mu(b, kk, x) > Mu(a, kk, x)
        /\ profile[b] = [profile[a] EXCEPT !.rsc[x][(kk * p7P_NR) + p7P_MSC] = Mu(b, kk, x)]

\* C8: monotonicity.  For two profiles equal except that one match-score cell
\* is larger in the second, the same sequence and dimensions, the second call
\* returns a value >= the value the first returns.
C8_Monotone ==
    (Done(1) /\ Done(2) /\ SameSequence(1, 2) /\ OneCellLarger(1, 2)) =>
        ret[1] <= ret[2]

\* raising one cell raised the result
C8_Witness ==
    /\ Done(1) /\ Done(2) /\ SameSequence(1, 2) /\ OneCellLarger(1, 2)
    /\ ret[1] < ret[2]

(***************************************************************************)
(* Properties of one call, continued.                                      *)
(***************************************************************************)
\* C9: for a profile whose canonical match scores are all 0, compute_msv
\* returns 0 for every sequence, non-canonical residue codes included.
C9_ZeroProfile ==
    (Done(1) /\ ConstantProfile(1, 0)) => ret[1] = 0

\* an all-zero profile of length 3 on a sequence of non-canonical residues
C9_Witness ==
    /\ Done(1) /\ ConstantProfile(1, 0)
    /\ ModelLen(1) = 3 /\ SeqLen(1) = 3
    /\ \A ii \in 1..3 : ~Canonical(Res(1, ii))
    /\ ret[1] = 0

\* C10: no step of compute_msv changes the sequence buffer S[0..L+1].
C10_SequenceUnchanged == [][digital_sequence' = digital_sequence]_vars

\* after a call that read rows of invalid residues, both sentinels are in place
C10_Witness ==
    /\ Done(1) /\ Proper(1)
    /\ \E ii \in 1..SeqLen(1) : ~Canonical(Res(1, ii))
    /\ Res(1, 0) = digitalResidueSentinel
    /\ Res(1, SeqLen(1) + 1) = digitalResidueSentinel

MatchCells(c) == (0..Mat(c).sequence_length) \X (0..Mat(c).model_length)

C14_EdgeCaseWritesNothing ==
    (SeqLen(1) <= 0 \/ ModelLen(1) <= 0) =>
        /\ \A ii \in DOMAIN Mat(1).dp :
              \A j \in DOMAIN Mat(1).dp[ii] : Mat(1).dp[ii][j] = NegInf
        /\ \A j \in DOMAIN Mat(1).xmx : Mat(1).xmx[j] = NegInf

\* an empty sequence against a model of positive length: returned, row 0 unset
C14_Witness ==
    /\ Done(1) /\ SeqLen(1) = 0 /\ ModelLen(1) >= 1
    /\ match(Mat(1), 0, 0) = NegInf
    /\ match(Mat(1), 0, 1) = NegInf

(***************************************************************************)
(* Pattern profiles (specification SpecPattern).                           *)
(***************************************************************************)
\* position 1 scores g > 0 for residue a, every other canonical match score
\* is negative, and the sequence consists of residue a only
SingleFavourable(c, a, g) ==
    /\ g > 0
    /\ Mu(c, 1, a) = g
    /\ \A kk \in 1..ModelLen(c), x \in 0..(K - 1) :
          (kk # 1 \/ x # a) => Mu(c, kk, x) < 0
    /\ \A j \in 1..SeqLen(c) : Res(c, j) = a

\* C15: single favourable cell.  For M >= 1 and L >= 1, when mu(1, a) = g > 0
\* for one canonical residue a, every other canonical match score is negative
\* and the sequence consists of residue a only, compute_msv returns g.
C15_SingleFavourableCell ==
    (Done(1) /\ Proper(1)) =>
        \A a \in 0..(K - 1) :
            SingleFavourable(1, a, Mu(1, 1, a)) => ret[1] = Mu(1, 1, a)

\* 3 x 3, g = 2 and -1 elsewhere: extending the cell would give 1, the call
\* returns 2
C15_Witness ==
    /\ Done(1) /\ SeqLen(1) = 3 /\ ModelLen(1) = 3
    /\ SingleFavourable(1, 0, 2)
    /\ Mu(1, 2, 0) = -1
    /\ match(Mat(1), 3, 1) = 2
    /\ ret[1] = 2

\* n = M = L <= K, the residues of the sequence are canonical and pairwise
\* distinct, position k scores >= 0 for S[k] and <= 0 for every other residue
PerfectDiagonal(c) ==
    /\ ModelLen(c) = SeqLen(c) /\ ModelLen(c) >= 1 /\ ModelLen(c) <= K
    /\ \A j \in 1..SeqLen(c) : Canonical(Res(c, j))
    /\ \A j1 \in 1..SeqLen(c), j2 \in 1..SeqLen(c) :
          j1 # j2 => Res(c, j1) # Res(c, j2)
    /\ \A kk \in 1..ModelLen(c), x \in 0..(K - 1) :
          IF x = Res(c, kk) THEN Mu(c, kk, x) >= 0 ELSE Mu(c, kk, x) <= 0

\* C16: perfect diagonal match.  Under PerfectDiagonal, after the call
\* DP(i, i) = m_1 + ... + m_i for i in 1..n and the returned score is
\* m_1 + ... + m_n, where m_k = mu(k, S[k]).
C16_PerfectDiagonalSum ==
    (Done(1) /\ PerfectDiagonal(1)) =>
        /\ \A ii \in 1..SeqLen(1) : match(Mat(1), ii, ii) = RunSum(1, 1, 1, ii)
        /\ ret[1] = RunSum(1, 1, 1, SeqLen(1))

\* preferred scores 2, 1, 2: the diagonal holds 2, 3, 5 and the call returns 5
C16_Witness ==
    /\ Done(1) /\ PerfectDiagonal(1) /\ SeqLen(1) = 3
    /\ Mu(1, 1, Res(1, 1)) = 2 /\ Mu(1, 2, Res(1, 2)) = 1 /\ Mu(1, 3, Res(1, 3)) = 2
    /\ match(Mat(1), 1, 1) = 2 /\ match(Mat(1), 2, 2) = 3 /\ match(Mat(1), 3, 3) = 5
    /\ ret[1] = 5

(***************************************************************************)
(* Two interleaved calls (specification SpecInterleave).                   *)
(***************************************************************************)
\* the match cell (ii, kk) a call leaves when it runs alone on a constructed
\* matrix: row 0 is set to 0, column 0 is not written, the row of an invalid
\* residue is set to 0, every other cell follows the recurrence
RECURSIVE AloneCell(_, _, _)
AloneCell(c, ii, kk) ==
    IF ii = 0 THEN 0
    ELSE IF kk = 0 THEN NegInf
    ELSE IF InvalidResidue(Res(c, ii)) THEN 0
    ELSE DpValue(AloneCell(c, ii - 1, kk - 1), Mu(c, kk, Res(c, ii)))

\* the matrix a call with L >= 1 and M >= 1 leaves when it runs alone
AloneMatrix(c) ==
    [ Mat(c) EXCEPT !.dp =
        [ii \in 0..SeqLen(c) |->
           [j \in 0..((ModelLen(c) + 1) * 3 - 1) |->
              IF j % 3 = 0 THEN AloneCell(c, ii, j \div 3) ELSE NegInf]] ]

\* C17: two calls whose steps interleave in any order, each on its own matrix
\* and both on the same profile, each return the score and leave the matrix
\* contents of the call run alone.
C17_InterleavedAsAlone ==
    \A c \in Calls :
        (Done(c) /\ Proper(c)) =>
            /\ ret[c] = BestCanonicalRun(c)
            /\ Mat(c) = AloneMatrix(c)

\* call 1 has returned 4 while call 2, on another sequence, is inside its
\* first row
C17_Witness ==
    /\ Done(1) /\ ret[1] = 4 /\ Mat(1) = AloneMatrix(1)
    /\ pc[2] = "cell" /\ i[2] = 1 /\ k[2] = 2
    /\ profile[1] = profile[2]
    /\ digital_sequence[1] # digital_sequence[2]

(***************************************************************************)
(* The profile under construction (specification SpecBuild).               *)
(***************************************************************************)
\* C18: immediately after HMMProfile(M, alphabet) is constructed, every cell
\* of the emission table is -infinity, for all Kp residue rows and all
\* positions 0..M, the row of the gap symbol included; the builders write
\* rows of canonical residues only, so the gap row (and every row x >= K)
\* is -infinity after building too.
C18_ProfileUnsetCells ==
    /\ DOMAIN profile[1].rsc = 0..(Kp - 1)
    /\ \A x \in 0..(Kp - 1) :
          DOMAIN profile[1].rsc[x] = 0..((profile[1].allocM + 1) * 2 - 1)
    /\ pc[1] = "build" =>
          \A x \in 0..(Kp - 1) :
              \A j \in DOMAIN profile[1].rsc[x] : profile[1].rsc[x][j] = NegInf
    /\ \A x \in K..(Kp - 1) :
          \A j \in DOMAIN profile[1].rsc[x] : profile[1].rsc[x][j] = NegInf

\* a built profile of length 2 with scores in its canonical rows, its gap row
\* unset, after a call that met the gap symbol in the sequence
C18_Witness ==
    /\ Done(1) /\ ModelLen(1) = 2 /\ SeqLen(1) = 2
    /\ Res(1, 1) = GapIdx
    /\ Mu(1, 1, 0) = 2 /\ Mu(1, 2, K - 1) = -1
    /\ \A kk \in 0..2 : Mu(1, kk, GapIdx) = NegInf

\* C19: in the constructed alphabet (K = 20, Kp = 29), for a canonical x < K
\* degen(x, y) = 1 exactly when y = x and ndegen[x] = 1; for the wildcard row
\* Kp - 3 degen = 1 in all K columns and ndegen = K; for every other row in
\* K..Kp-1 all degen entries and ndegen are 0.  The alphabet is the one the
\* profile of the call was constructed over, with one emission row per symbol.
C19_Degeneracy ==
    /\ AminoAcidAlphabet.K = 20 /\ AminoAcidAlphabet.Kp = 29
    /\ DOMAIN profile[1].rsc = 0..(AminoAcidAlphabet.Kp - 1)
    /\ \A x \in 0..19 :
          /\ AminoAcidAlphabet.ndegen[x] = 1
          /\ \A y \in 0..19 :
                get_degen(AminoAcidAlphabet, x, y) = IF y = x THEN 1 ELSE 0
    /\ AminoAcidAlphabet.ndegen[29 - 3] = 20
    /\ \A y \in 0..19 : get_degen(AminoAcidAlphabet, 29 - 3, y) = 1
    /\ \A x \in (20..28) \ {29 - 3} :
          /\ AminoAcidAlphabet.ndegen[x] = 0
          /\ \A y \in 0..19 : get_degen(AminoAcidAlphabet, x, y) = 0

\* a profile constructed over the alphabet, one emission row per symbol: the
\* wildcard row of the alphabet is full, the gap row is empty
C19_Witness ==
    /\ pc[1] = "build"
    /\ Cardinality(DOMAIN profile[1].rsc) = AminoAcidAlphabet.Kp
    /\ AminoAcidAlphabet.ndegen[any_idx] = K
    /\ get_degen(AminoAcidAlphabet, any_idx, K - 1) = 1
    /\ AminoAcidAlphabet.ndegen[GapIdx] = 0
    /\ get_degen(AminoAcidAlphabet, K - 1, K - 1) = 1

(***************************************************************************)
(* Properties of one call, continued (specification Spec).                 *)
(***************************************************************************)
\* C20: DPMatrix(M, L) allocates exactly L + 1 rows, each of (M + 1) * 3
\* cells, and (L + 1) * 5 special-state cells, and records model_length = M
\* and sequence_length = L; M and L are the dimensions of the call, a
\* non-positive one taken as 0.
C20_MatrixDimensions ==
    LET M == Max0(ModelLen(1))
        L == Max0(SeqLen(1))
    IN  /\ DOMAIN Mat(1).dp = 0..L
        /\ \A ii \in 0..L : DOMAIN Mat(1).dp[ii] = 0..((M + 1) * 3 - 1)
        /\ DOMAIN Mat(1).xmx = 0..((L + 1) * 5 - 1)
        /\ Mat(1).model_length = M
        /\ Mat(1).sequence_length = L

\* DPMatrix(3, 2): 3 rows of 12 cells and 15 special-state cells
C20_Witness ==
    /\ pc[1] = "entry"
    /\ ModelLen(1) = 3 /\ SeqLen(1) = 2
    /\ Cardinality(DOMAIN Mat(1).dp) = 3
    /\ Cardinality(DOMAIN Mat(1).dp[0]) = 12
    /\ Cardinality(DOMAIN Mat(1).xmx) = 15
    /\ Mat(1).model_length = 3 /\ Mat(1).sequence_length = 2

(***************************************************************************)
(* The cells one call writes (specification Spec).                         *)
(***************************************************************************)
\* the call has written cell (ii, kk), 1 <= ii <= L, 1 <= kk <= M: the rows
\* before row i, and on row i the columns before k
Filled(c, ii, kk) ==
    /\ Proper(c)
    /\ \/ Done(c)
       \/ pc[c] \in {"row", "skip", "cell"} /\ ii < i[c]
       \/ pc[c] \in {"skip", "cell"} /\ ii = i[c] /\ kk < k[c]

\* the cells (ii, kk) with 1 <= ii <= L and 1 <= kk <= M
Grid(c) == (1..SeqLen(c)) \X (1..ModelLen(c))

C22_InvalidRowResets ==
    \A q \in Grid(1) :
        (Filled(1, q[1], q[2]) /\ ~Canonical(Res(1, q[1]))) =>
            /\ match(Mat(1), q[1], q[2]) = 0
            /\ (q[1] + 1 <= SeqLen(1) /\ q[2] + 1 <= ModelLen(1)
                  /\ Filled(1, q[1] + 1, q[2] + 1)) =>
                 match(Mat(1), q[1] + 1, q[2] + 1) =
                    IF Canonical(Res(1, q[1] + 1))
                    THEN SetMax({0, Mu(1, q[2] + 1, Res(1, q[1] + 1))})
                    ELSE 0

\* row 1 ends a run of score 2 in (1, 1), row 2 has an invalid residue, and
\* (3, 3) holds 2: the score of its own cell, nothing of row 1
C22_Witness ==
    /\ Done(1) /\ SeqLen(1) = 3 /\ ModelLen(1) = 3
    /\ Canonical(Res(1, 1)) /\ ~Canonical(Res(1, 2)) /\ Canonical(Res(1, 3))
    /\ match(Mat(1), 1, 1) = 2
    /\ match(Mat(1), 2, 2) = 0
    /\ match(Mat(1), 3, 3) = 2

C24_UnsetScoresFloored ==
    \A q \in Grid(1) :
        (Filled(1, q[1], q[2]) /\ Canonical(Res(1, q[1]))) =>
            /\ Mu(1, q[2], Res(1, q[1])) = NegInf => match(Mat(1), q[1], q[2]) = 0
            /\ match(Mat(1), q[1] - 1, q[2] - 1) = NegInf =>
                  (match(Mat(1), q[1], q[2]) # NegInf /\ match(Mat(1), q[1], q[2]) >= 0)

\* (1, 1) has an unset score and holds 0; (2, 1) has the unset predecessor
\* (1, 0) and holds its own score 1
C24_Witness ==
    /\ Done(1) /\ AllCanonical(1) /\ SeqLen(1) = 2 /\ ModelLen(1) >= 1
    /\ Mu(1, 1, Res(1, 1)) = NegInf /\ match(Mat(1), 1, 1) = 0
    /\ match(Mat(1), 1, 0) = NegInf
    /\ Mu(1, 1, Res(1, 2)) = 1 /\ match(Mat(1), 2, 1) = 1

\* the indices of cell (ii, kk) are inside the matrix of call c and inside
\* the grid 0..L x 0..M of the call
InMatrix(c, ii, kk) ==
    /\ ii >= 0 /\ ii <= SeqLen(c) /\ kk >= 0 /\ kk <= ModelLen(c)
    /\ ii \in DOMAIN Mat(c).dp
    /\ (kk * 3) \in DOMAIN Mat(c).dp[ii]

\* 1 <= model_length <= min(allocM, dp_matrix.model_length) and
\* 1 <= sequence_length <= dp_matrix.sequence_length
FitsMatrix(c) ==
    /\ ModelLen(c) >= 1 /\ ModelLen(c) <= profile[c].allocM
    /\ ModelLen(c) <= Mat(c).model_length
    /\ SeqLen(c) >= 1 /\ SeqLen(c) <= Mat(c).sequence_length

\* C27: when the call fits its profile and its matrix, every index it uses
\* is in range: the sequence is read at 1..L only, the matrix is accessed in
\* rows 0..L and columns 0..M only, the profile is read at positions 1..M for
\* residues < K only.
C27_IndicesInRange ==
    FitsMatrix(1) =>
        /\ (pc[1] = "row0" /\ k[1] <= ModelLen(1)) => InMatrix(1, 0, k[1])
        /\ (pc[1] = "row" /\ i[1] <= SeqLen(1)) =>
              /\ i[1] >= 1
              /\ i[1] \in DOMAIN digital_sequence[1]
              /\ i[1] # 0 /\ i[1] # SeqLen(1) + 1
        /\ (pc[1] = "skip" /\ k[1] <= ModelLen(1)) =>
              /\ i[1] >= 1 /\ k[1] >= 1
              /\ InMatrix(1, i[1], k[1])
        /\ (pc[1] = "cell" /\ k[1] <= ModelLen(1)) =>
              /\ i[1] >= 1 /\ k[1] >= 1
              /\ residue[1] >= 0 /\ residue[1] < K
              /\ residue[1] \in DOMAIN profile[1].rsc
              /\ (k[1] * 2) \in DOMAIN profile[1].rsc[residue[1]]
              /\ InMatrix(1, i[1] - 1, k[1] - 1)
              /\ InMatrix(1, i[1], k[1])

\* the call is about to compute its last cell (L, M) of a 2 x 2 grid
C27_Witness ==
    /\ FitsMatrix(1) /\ SeqLen(1) = 2 /\ ModelLen(1) = 2
    /\ pc[1] = "cell" /\ i[1] = 2 /\ k[1] = 2
    /\ residue[1] = K - 1

\* C29: every step of the call leaves the profile, the insert and delete
\* planes, the special-state cells and the dimension fields of the matrix as
\* they are; a cell it changes is a match cell of the matrix it was passed,
\* in row 0 at a column 0..M or in a row 1..L at a column 1..M.
C29_WritesMatchPlaneOnly ==
    [][ /\ profile' = profile
        /\ \A m \in Mats :
              /\ dp_matrix'[m].xmx = dp_matrix[m].xmx
              /\ dp_matrix'[m].model_length = dp_matrix[m].model_length
              /\ dp_matrix'[m].sequence_length = dp_matrix[m].sequence_length
              /\ dp_matrix'[m].allocR = dp_matrix[m].allocR
              /\ dp_matrix'[m].validR = dp_matrix[m].validR
              /\ dp_matrix'[m].allocW = dp_matrix[m].allocW
              /\ DOMAIN dp_matrix'[m].dp = DOMAIN dp_matrix[m].dp
              /\ \A ii \in DOMAIN dp_matrix[m].dp :
                    /\ DOMAIN dp_matrix'[m].dp[ii] = DOMAIN dp_matrix[m].dp[ii]
                    /\ \A j \in DOMAIN dp_matrix[m].dp[ii] :
                          dp_matrix'[m].dp[ii][j] # dp_matrix[m].dp[ii][j] =>
                              /\ m = mx[1]
                              /\ j % 3 = 0
                              /\ ii <= SeqLen(1) /\ j \div 3 <= ModelLen(1)
                              /\ ii = 0 \/ j \div 3 >= 1
      ]_vars

\* after a 3 x 3 call: match cells written, the insert and delete cells of
\* the same positions and the special-state cells still unset
C29_Witness ==
    /\ Done(1) /\ SeqLen(1) = 3 /\ ModelLen(1) = 3
    /\ match(Mat(1), 3, 3) >= 0 /\ match(Mat(1), 0, 0) = 0
    /\ Mat(1).dp[3][(3 * 3) + 1] = NegInf
    /\ Mat(1).dp[3][(3 * 3) + 2] = NegInf
    /\ Mat(1).dp[0][1] = NegInf
    /\ \A j \in DOMAIN Mat(1).xmx : Mat(1).xmx[j] = NegInf

(***************************************************************************)
(* A second call on a filled matrix (specification SpecReuse).             *)
(***************************************************************************)
\* C25: matrix reuse.  A call on a matrix that an earlier call of the same
\* dimensions has filled returns the score, and leaves the match plane, of
\* the same call on a freshly constructed matrix.
C25_ReuseAsFresh ==
    (Done(1) /\ Done(2) /\ mx[1] = mx[2]) =>
        /\ ret[2] = BestCanonicalRun(2)
        /\ \A q \in MatchCells(2) : match(Mat(2), q[1], q[2]) = AloneCell(2, q[1], q[2])

\* the first call left 4 in (2, 2) and returned 4; the second call, whose
\* second residue is invalid, returned less and left 0 there
C25_Witness ==
    /\ Done(1) /\ Done(2) /\ mx[1] = mx[2]
    /\ SeqLen(2) = 2 /\ ModelLen(2) = 2
    /\ ret[1] = 4
    /\ ~Canonical(Res(2, 2))
    /\ ret[2] = 2
    /\ match(Mat(2), 2, 2) = 0

C28_FillingOrder ==
    /\ [](Proper(1) =>
            /\ \A q \in Grid(1) :
                  (match(Mat(1), q[1], q[2]) # NegInf) <=> Filled(1, q[1], q[2])
            /\ (pc[1] = "cell" /\ k[1] <= ModelLen(1) /\ i[1] >= 2 /\ k[1] >= 2) =>
                  match(Mat(1), i[1] - 1, k[1] - 1) # NegInf)
    /\ [][\A q \in Grid(1) :
            match(Mat(1), q[1], q[2]) # NegInf =>
                match(dp_matrix'[mx[1]], q[1], q[2]) = match(Mat(1), q[1], q[2])]_vars
    /\ <>Done(1)

\* about to write (2, 2) of a 3 x 3 grid: row 1 and (2, 1) are written,
\* (2, 2), (2, 3) and row 3 are not
C28_Witness ==
    /\ SeqLen(1) = 3 /\ ModelLen(1) = 3
    /\ pc[1] = "cell" /\ i[1] = 2 /\ k[1] = 2
    /\ \A kk \in 1..3 : match(Mat(1), 1, kk) # NegInf
    /\ match(Mat(1), 2, 1) # NegInf
    /\ match(Mat(1), 2, 2) = NegInf /\ match(Mat(1), 2, 3) = NegInf
    /\ \A kk \in 1..3 : match(Mat(1), 3, kk) = NegInf

====
